---- MODULE Spec2Model ----
(***************************************************************************)
(* Block device disk management (rtems_disk): the two-level table of disk  *)
(* devices, creation of physical and logical disks, reference counted      *)
(* obtain/release, cascading deletion and the table iterator.              *)
(*                                                                         *)
(* A device number dev_t is modelled as the pair <<major, minor>> that     *)
(* rtems_filesystem_split_dev_t produces.  A descriptor pointer is an      *)
(* address in Addrs; NULL is 0.  The fields                                *)
(* driver_data and capabilities of a descriptor are opaque values that no  *)
(* operation of the registry reads; they are not part of the state.        *)
(***************************************************************************)
EXTENDS Integers, Sequences, FiniteSets, TLC

(* ---- bounds of the model ---- *)
MaxRefs == 2       \* pointers callers hold at a time, specification Spec
MaxArgRefs == 1    \* the same, specification SpecArgs
MaxInits == 2      \* successful initializations of the buffer cache
MaxThrRefs == 2    \* pointers callers hold at a time, specifications SpecUni and SpecSMP
MaxRaces == 2      \* releases that run between the read and the write of a lock holder's
                   \* update of the same use count

(* ---- program constants ---- *)
DISKTAB_INITIAL_SIZE == 8
NULL == 0

(* rtems_blkdev_bnum and the use count are 32 bit unsigned integers.  The  *)
(* model checker's integers are 32 bit signed, so the model computes with  *)
(* unsigned integers of UnsignedBits bits: the same arithmetic modulo a    *)
(* power of two, with the same wrap-around at the top of the range.        *)
UnsignedBits == 16
UnsignedMod == 2 ^ UnsignedBits
MaxUnsigned == UnsignedMod - 1

(* ---- inputs ---- *)
(* The device numbers the calls are made with.  malloc hands out, among    *)
(* the addresses that are free, the one with the position of the device in *)
(* DevSeq: the program compares descriptor pointers for equality only, so  *)
(* which free address a descriptor gets cannot be observed.                *)
(* Spec uses the first three devices; SpecArgs uses the first and the last, *)
(* whose slot lies outside the initial tables in both dimensions.          *)
DevSeq == << <<0, 0>>, <<0, 1>>, <<1, 0>>, <<9, 8>> >>
Addrs == 1 .. Len(DevSeq)
Devs == { DevSeq[1], DevSeq[2], DevSeq[3] }
ArgDevs == { DevSeq[1], DevSeq[4] }
InitEnvs == { "ok", "nomem", "sem_fail", "bdbuf_fail" }

(* inputs of Spec: calls with valid block size and handler, a range inside *)
(* the disk and an empty one, no failure of the environment                *)
BlockSizes == { 512 }
PhysCounts == { 4 }
Handlers == { 1 }
Ranges == { <<0, 3>>, <<1, 0>> }
NameEnvs == { <<NULL, "ok">> }

(* inputs of SpecArgs: all argument values.  A range <<begin_block,        *)
(* block_count>> lies inside a disk, ends at its last block or past its    *)
(* end, is empty, wraps around, or begins past its end.  <<name, env>> is  *)
(* the name argument (NULL or a path name of the device) and what the      *)
(* environment does to the call: nothing, or the failure of one of its     *)
(* allocations or of rtems_io_register_name.                               *)
ArgBlockSizes == { 0, 512, 1024 }
ArgPhysCounts == { 3, 4 }
ArgHandlers == { NULL, 1 }
ArgRanges == { <<0, 3>>, <<2, 2>>, <<1, 0>>, <<2, MaxUnsigned>>, <<4, 1>> }
ArgNameEnvs == { <<NULL, "ok">>, <<1, "ok">>, <<NULL, "nomem_major">>, <<NULL, "nomem_minor">>,
                 <<NULL, "nomem_dd">>, <<1, "nomem_name">>, <<1, "reg_fail">> }
(* the calls of SpecArgs: every geometry without a name in an environment  *)
(* that does not fail, and one valid geometry with every <<name, env>>     *)
ArgPhysCalls ==
  { << bs, bc, h, NULL, "ok" >> : bs \in ArgBlockSizes, bc \in ArgPhysCounts, h \in ArgHandlers }
    \cup { << 512, 4, 1, ne[1], ne[2] >> : ne \in ArgNameEnvs }
ArgLogCalls ==
  { << r[1], r[2], NULL, "ok" >> : r \in ArgRanges }
    \cup { << 0, 3, ne[1], ne[2] >> : ne \in ArgNameEnvs }

VARIABLES
  disktab_ptr,        \* the pointer disktab: "NULL", "ALLOCATED" or "FREED" (dangling)
  disktab,            \* the table disktab points to: [0..n-1 -> [alloc, size, minor]]
  disktab_size,       \* number of allocated entries in disktab
  diskdevs_mutex,     \* "NONE" (no id), "VALID" (a created semaphore), "STALE" (id of a deleted one)
  diskdevs_protected, \* the protection flag
  heap,               \* Addrs -> descriptor memory
  registered,         \* names registered with the IO name space (a name is the dev it was given for)
  notified,           \* Addrs -> number of RTEMS_BLKIO_DELETED calls the driver received for it
  refs,               \* Addrs -> number of pointers callers hold from rtems_disk_obtain
  last,               \* the last call: operation, arguments, environment outcome, result
  mutex_owner,        \* the thread that holds the semaphore diskdevs_mutex, 0 when it is available
  bdbuf_inits,        \* number of times rtems_bdbuf_init has initialized the buffer cache
  pc,                 \* Threads -> the statement the thread is at, "idle" between calls
  loc,                \* Threads -> the arguments and local variables of the call in progress
  races               \* number of use count updates of a lock holder that a release ran into

vars == << disktab_ptr, disktab, disktab_size, diskdevs_mutex, diskdevs_protected,
           heap, registered, notified, refs, last, mutex_owner, bdbuf_inits, pc, loc,
           races >>

(* the threads; the calls that run from entry to return without another    *)
(* thread in between are made by MainThread                                *)
Threads == { 1, 2 }
MainThread == 1
thr == << pc, loc, races >>

Major(dev) == dev[1]
Minor(dev) == dev[2]

(* descriptor memory: st is "free" (not allocated, or freed) or "live" *)
NoDesc(st) ==
  [ st |-> st, dev |-> <<0, 0>>, name |-> NULL, uses |-> 0, deleted |-> FALSE,
    phys_dev |-> NULL, start |-> 0, size |-> 0, block_size |-> 0,
    media_block_size |-> 0, ioctl |-> NULL ]

(* an entry of disktab as calloc/memset leave it: minor == NULL, size == 0 *)
EmptyTable == [ alloc |-> FALSE, size |-> 0, minor |-> [ j \in {} |-> NULL ] ]

NoCall == [ op |-> "none", dev |-> <<0, 0>>, sc |-> "", dd |-> NULL ]

(* a call of op on dev that returned the status sc or the pointer dd *)
Call(op, dev, sc, dd) == [ op |-> op, dev |-> dev, sc |-> sc, dd |-> dd ]

(* the memory the operations work on, threaded through the helper functions *)
Mem == [ tab |-> disktab, tsize |-> disktab_size, heap |-> heap,
         registered |-> registered, notified |-> notified,
         protected |-> diskdevs_protected, owner |-> mutex_owner ]

(* the local variables of a thread that is in no call *)
(* uses is the use count as read by a statement that has not written it    *)
(* back yet, next the statement after the decrement in progress, rel the   *)
(* descriptor rtems_disk_release was called with and stale whether it has  *)
(* been freed since rtems_disk_release decremented its use count           *)
NoLocals == [ op |-> "none", dev |-> <<0, 0>>, phys |-> <<0, 0>>, dd |-> NULL,
              uses |-> 0, deleted_count |-> 0, sc |-> "", next |-> "",
              rel |-> NULL, stale |-> FALSE ]

Init ==
  /\ disktab_ptr = "NULL"
  /\ disktab = [ i \in {} |-> EmptyTable ]
  /\ disktab_size = 0
  /\ diskdevs_mutex = "NONE"
  /\ diskdevs_protected = FALSE
  /\ heap = [ a \in Addrs |-> NoDesc("free") ]
  /\ registered = {}
  /\ notified = [ a \in Addrs |-> 0 ]
  /\ refs = [ a \in Addrs |-> 0 ]
  /\ last = NoCall
  /\ mutex_owner = 0
  /\ bdbuf_inits = 0
  /\ pc = [ t \in Threads |-> "idle" ]
  /\ loc = [ t \in Threads |-> NoLocals ]
  /\ races = 0

(* disk_lock: the semaphore obtain succeeds on a valid semaphore id only *)
disk_lock_sc == IF diskdevs_mutex = "VALID" THEN "RTEMS_SUCCESSFUL" ELSE "RTEMS_NOT_CONFIGURED"

(* disk_lock of thread t once rtems_semaphore_obtain has returned          *)
(* RTEMS_SUCCESSFUL: t holds the semaphore and sets the flag               *)
disk_lock(m, t) == [ m EXCEPT !.owner = t, !.protected = TRUE ]

(* disk_unlock: the flag is cleared, then the semaphore is released *)
disk_unlock(m) == [ m EXCEPT !.protected = FALSE, !.owner = 0 ]

(* the slot disktab [major].minor [minor], NULL when the table has no such slot *)
SlotIn(tab, tsize, dev) ==
  IF Major(dev) < tsize /\ disktab_ptr # "NULL"
    THEN IF Minor(dev) < tab[Major(dev)].size /\ tab[Major(dev)].alloc
           THEN tab[Major(dev)].minor[Minor(dev)]
           ELSE NULL
    ELSE NULL

(* a lookup that returns descriptors pending deletion too *)
get_disk_entry_dd_pending(m, dev) == SlotIn(m.tab, m.tsize, dev)

(* get_disk_entry: the descriptor returned ... *)
get_disk_entry_dd(m, dev) ==
  LET dd == SlotIn(m.tab, m.tsize, dev)
  IN  IF dd # NULL /\ ~ m.heap[dd].deleted THEN dd ELSE NULL

(* a lookup that counts a use of a descriptor pending deletion *)
get_disk_entry_count_pending(m, dev) ==
  LET dd == SlotIn(m.tab, m.tsize, dev)
  IN  IF dd # NULL
        THEN [ m EXCEPT !.heap[dd].uses = (@ + 1) % UnsignedMod ]
        ELSE m

(* ... and the memory after its ++dd->uses *)
get_disk_entry(m, dev) ==
  LET dd == get_disk_entry_dd(m, dev)
  IN  IF dd # NULL
        THEN [ m EXCEPT !.heap[dd].uses = (@ + 1) % UnsignedMod ]
        ELSE m

(* create_disk_table_entry: grows the major table and the minor table of   *)
(* dev's major as needed.  ok = FALSE is the NULL return of a failed       *)
(* realloc, which env decides; the sizes stay far below the 32 bit range.  *)
create_disk_table_entry(m, dev, env) ==
  LET major == Major(dev)
      minor == Minor(dev)
      grow_major == major >= m.tsize
      new_major_size == IF major >= 2 * m.tsize THEN major + 1 ELSE 2 * m.tsize
      m1 == IF grow_major
              THEN [ m EXCEPT !.tab = [ i \in 0 .. new_major_size - 1 |->
                                          IF i < m.tsize THEN m.tab[i] ELSE EmptyTable ],
                              !.tsize = new_major_size ]
              ELSE m
      old_size == m1.tab[major].size
      grow_minor == ~ m1.tab[major].alloc \/ minor >= old_size
      new_size0 == IF old_size = 0 THEN DISKTAB_INITIAL_SIZE ELSE 2 * old_size
      new_size == IF minor >= new_size0 THEN minor + 1 ELSE new_size0
      m2 == IF grow_minor
              THEN [ m1 EXCEPT !.tab[major] =
                       [ alloc |-> TRUE, size |-> new_size,
                         minor |-> [ j \in 0 .. new_size - 1 |->
                                       IF j < old_size THEN m1.tab[major].minor[j] ELSE NULL ] ] ]
              ELSE m1
  IN  IF grow_major /\ env = "nomem_major" THEN [ ok |-> FALSE, m |-> m ]
      ELSE IF grow_minor /\ env = "nomem_minor" THEN [ ok |-> FALSE, m |-> m1 ]
      ELSE [ ok |-> TRUE, m |-> m2 ]

(* a create_disk that does not look at the slot before it fills it *)
create_disk_overwrite(m, dev, name, env, fresh) ==
  LET e == create_disk_table_entry(m, dev, env)
      m1 == e.m
  IN  IF ~ e.ok THEN [ sc |-> "RTEMS_NO_MEMORY", dd |-> NULL, m |-> m1 ]
      ELSE IF env = "nomem_dd" THEN [ sc |-> "RTEMS_NO_MEMORY", dd |-> NULL, m |-> m1 ]
      ELSE [ sc |-> "RTEMS_SUCCESSFUL", dd |-> fresh,
             m |-> [ m1 EXCEPT
                       !.heap[fresh] = [ NoDesc("live") EXCEPT !.dev = dev, !.name = name ],
                       !.tab[Major(dev)].minor[Minor(dev)] = fresh ] ]

(* create_disk: fresh is the address malloc returns.  The fields the       *)
(* callers fill in afterwards are left zero here.                          *)
create_disk(m, dev, name, env, fresh) ==
  LET e == create_disk_table_entry(m, dev, env)
      m1 == e.m
  IN  IF ~ e.ok THEN [ sc |-> "RTEMS_NO_MEMORY", dd |-> NULL, m |-> m1 ]
      ELSE IF m1.tab[Major(dev)].minor[Minor(dev)] # NULL
        THEN [ sc |-> "RTEMS_RESOURCE_IN_USE", dd |-> NULL, m |-> m1 ]
      ELSE IF env = "nomem_dd" THEN [ sc |-> "RTEMS_NO_MEMORY", dd |-> NULL, m |-> m1 ]
      ELSE IF name # NULL /\ env = "nomem_name"
        THEN [ sc |-> "RTEMS_NO_MEMORY", dd |-> NULL, m |-> m1 ]
      ELSE IF name # NULL /\ env = "reg_fail"
        THEN [ sc |-> "RTEMS_UNSATISFIED", dd |-> NULL, m |-> m1 ]
      ELSE [ sc |-> "RTEMS_SUCCESSFUL", dd |-> fresh,
             m |-> [ m1 EXCEPT
                       !.heap[fresh] = [ NoDesc("live") EXCEPT !.dev = dev, !.name = name,
                                                                !.uses = 0, !.deleted = FALSE ],
                       !.registered = IF name # NULL THEN @ \cup { dev } ELSE @,
                       !.notified[fresh] = 0,
                       !.tab[Major(dev)].minor[Minor(dev)] = fresh ] ]

(* a create_phys that stores the media block size only *)
create_phys_locked_no_block_size(m, dev, block_size, block_count, handler, name, env, fresh) ==
  LET c == create_disk(m, dev, name, env, fresh)
      dd == c.dd
  IN  IF c.sc # "RTEMS_SUCCESSFUL" THEN [ sc |-> c.sc, m |-> c.m ]
      ELSE [ sc |-> "RTEMS_SUCCESSFUL",
             m |-> [ c.m EXCEPT !.heap[dd].phys_dev = dd,
                                !.heap[dd].start = 0,
                                !.heap[dd].size = block_count,
                                !.heap[dd].media_block_size = block_size,
                                !.heap[dd].ioctl = handler ] ]

(* rtems_disk_create_phys between disk_lock and disk_unlock *)
create_phys_locked(m, dev, block_size, block_count, handler, name, env, fresh) ==
  LET c == create_disk(m, dev, name, env, fresh)
      dd == c.dd
  IN  IF c.sc # "RTEMS_SUCCESSFUL" THEN [ sc |-> c.sc, m |-> c.m ]
      ELSE [ sc |-> "RTEMS_SUCCESSFUL",
             m |-> [ c.m EXCEPT !.heap[dd].phys_dev = dd,
                                !.heap[dd].start = 0,
                                !.heap[dd].size = block_count,
                                !.heap[dd].block_size = block_size,
                                !.heap[dd].media_block_size = block_size,
                                !.heap[dd].ioctl = handler ] ]

(* rtems_disk_create_phys *)
rtems_disk_create_phys(m, dev, block_size, block_count, handler, name, env, fresh) ==
  IF handler = NULL THEN [ sc |-> "RTEMS_INVALID_ADDRESS", m |-> m ]
  ELSE IF block_size = 0 THEN [ sc |-> "RTEMS_INVALID_NUMBER", m |-> m ]
  ELSE IF disk_lock_sc # "RTEMS_SUCCESSFUL" THEN [ sc |-> disk_lock_sc, m |-> m ]
  ELSE [ create_phys_locked(disk_lock(m, MainThread), dev, block_size, block_count,
                            handler, name, env, fresh)
           EXCEPT !.m = disk_unlock(@) ]

(* is_physical_disk *)
is_physical_disk(m, dd) == m.heap[dd].phys_dev = dd

(* a range check that misses the test end_block <= begin_block *)
InvalidRange_no_wrap_test(begin_block, block_count, phys_size) ==
  LET end_block == (begin_block + block_count) % UnsignedMod
  IN  \/ begin_block >= phys_size
      \/ end_block > phys_size

(* the range check of rtems_disk_create_log; end_block is a 32 bit sum *)
InvalidRange(begin_block, block_count, phys_size) ==
  LET end_block == (begin_block + block_count) % UnsignedMod
  IN  \/ begin_block >= phys_size
      \/ end_block <= begin_block
      \/ end_block > phys_size

DecUses(m, dd) == [ m EXCEPT !.heap[dd].uses = (@ - 1) % UnsignedMod ]

(* a create_log that gives up its use of the physical disk on success too *)
create_log_locked_no_use(m, dev, phys, begin_block, block_count, name, env, fresh) ==
  LET physical_disk == get_disk_entry_dd(m, phys)
      m1 == get_disk_entry(m, phys)
  IN  IF physical_disk = NULL THEN [ sc |-> "RTEMS_INVALID_ID", m |-> m1 ]
      ELSE IF ~ is_physical_disk(m1, physical_disk)
        THEN [ sc |-> "RTEMS_INVALID_ID", m |-> DecUses(m1, physical_disk) ]
      ELSE IF InvalidRange(begin_block, block_count, m1.heap[physical_disk].size)
        THEN [ sc |-> "RTEMS_INVALID_NUMBER", m |-> DecUses(m1, physical_disk) ]
      ELSE LET c == create_disk(m1, dev, name, env, fresh)
               dd == c.dd
           IN  IF c.sc # "RTEMS_SUCCESSFUL"
                 THEN [ sc |-> c.sc, m |-> DecUses(c.m, physical_disk) ]
                 ELSE [ sc |-> "RTEMS_SUCCESSFUL",
                        m |-> [ DecUses(c.m, physical_disk) EXCEPT
                                  !.heap[dd].phys_dev = physical_disk,
                                  !.heap[dd].start = begin_block,
                                  !.heap[dd].size = block_count,
                                  !.heap[dd].block_size = c.m.heap[physical_disk].block_size,
                                  !.heap[dd].media_block_size = c.m.heap[physical_disk].block_size,
                                  !.heap[dd].ioctl = c.m.heap[physical_disk].ioctl ] ]

(* a create_log that keeps its use of the physical disk when create_disk   *)
(* fails                                                                   *)
create_log_locked_keep_use(m, dev, phys, begin_block, block_count, name, env, fresh) ==
  LET physical_disk == get_disk_entry_dd(m, phys)
      m1 == get_disk_entry(m, phys)
  IN  IF physical_disk = NULL THEN [ sc |-> "RTEMS_INVALID_ID", m |-> m1 ]
      ELSE IF ~ is_physical_disk(m1, physical_disk)
        THEN [ sc |-> "RTEMS_INVALID_ID", m |-> DecUses(m1, physical_disk) ]
      ELSE IF InvalidRange(begin_block, block_count, m1.heap[physical_disk].size)
        THEN [ sc |-> "RTEMS_INVALID_NUMBER", m |-> DecUses(m1, physical_disk) ]
      ELSE LET c == create_disk(m1, dev, name, env, fresh)
               dd == c.dd
           IN  IF c.sc # "RTEMS_SUCCESSFUL"
                 THEN [ sc |-> c.sc, m |-> c.m ]
                 ELSE [ sc |-> "RTEMS_SUCCESSFUL",
                        m |-> [ c.m EXCEPT
                                  !.heap[dd].phys_dev = physical_disk,
                                  !.heap[dd].start = begin_block,
                                  !.heap[dd].size = block_count,
                                  !.heap[dd].block_size = c.m.heap[physical_disk].block_size,
                                  !.heap[dd].media_block_size = c.m.heap[physical_disk].block_size,
                                  !.heap[dd].ioctl = c.m.heap[physical_disk].ioctl ] ]

(* rtems_disk_create_log between disk_lock and disk_unlock *)
create_log_locked(m, dev, phys, begin_block, block_count, name, env, fresh) ==
  LET physical_disk == get_disk_entry_dd(m, phys)
      m1 == get_disk_entry(m, phys)
  IN  IF physical_disk = NULL THEN [ sc |-> "RTEMS_INVALID_ID", m |-> m1 ]
      ELSE IF ~ is_physical_disk(m1, physical_disk)
        THEN [ sc |-> "RTEMS_INVALID_ID", m |-> DecUses(m1, physical_disk) ]
      ELSE IF InvalidRange(begin_block, block_count, m1.heap[physical_disk].size)
        THEN [ sc |-> "RTEMS_INVALID_NUMBER", m |-> DecUses(m1, physical_disk) ]
      ELSE LET c == create_disk(m1, dev, name, env, fresh)
               dd == c.dd
           IN  IF c.sc # "RTEMS_SUCCESSFUL"
                 THEN [ sc |-> c.sc, m |-> DecUses(c.m, physical_disk) ]
                 ELSE [ sc |-> "RTEMS_SUCCESSFUL",
                        m |-> [ c.m EXCEPT
                                  !.heap[dd].phys_dev = physical_disk,
                                  !.heap[dd].start = begin_block,
                                  !.heap[dd].size = block_count,
                                  !.heap[dd].block_size = c.m.heap[physical_disk].block_size,
                                  !.heap[dd].media_block_size = c.m.heap[physical_disk].block_size,
                                  !.heap[dd].ioctl = c.m.heap[physical_disk].ioctl ] ]

(* rtems_disk_create_log *)
rtems_disk_create_log(m, dev, phys, begin_block, block_count, name, env, fresh) ==
  IF disk_lock_sc # "RTEMS_SUCCESSFUL" THEN [ sc |-> disk_lock_sc, m |-> m ]
  ELSE [ create_log_locked(disk_lock(m, MainThread), dev, phys, begin_block, block_count,
                           name, env, fresh)
           EXCEPT !.m = disk_unlock(@) ]

(* a free_disk_device that tells the driver about every descriptor *)
free_disk_device_notify_all(m, dd) ==
  [ m EXCEPT !.notified[dd] = @ + 1,
             !.registered = IF m.heap[dd].name # NULL THEN @ \ { m.heap[dd].dev } ELSE @,
             !.heap[dd] = NoDesc("free") ]

(* free_disk_device: the driver of a physical disk is told, the name is    *)
(* unlinked, the memory is freed                                           *)
free_disk_device(m, dd) ==
  [ m EXCEPT !.notified[dd] = IF is_physical_disk(m, dd) THEN @ + 1 ELSE @,
             !.registered = IF m.heap[dd].name # NULL THEN @ \ { m.heap[dd].dev } ELSE @,
             !.heap[dd] = NoDesc("free") ]

(* a scan that leaves the logical disks in use unmarked *)
RECURSIVE CleanupScan_no_mark(_, _, _, _, _, _)
CleanupScan_no_mark(m, major, minor, physical_disk, dev, deleted_count) ==
  IF major >= m.tsize THEN [ m |-> m, deleted_count |-> deleted_count ]
  ELSE IF minor >= m.tab[major].size
    THEN CleanupScan_no_mark(m, major + 1, 0, physical_disk, dev, deleted_count)
  ELSE LET dd == m.tab[major].minor[minor]
       IN  IF dd # NULL /\ m.heap[m.heap[dd].phys_dev].dev = dev /\ dd # physical_disk
                /\ m.heap[dd].uses = 0
             THEN CleanupScan_no_mark(
                    free_disk_device([ m EXCEPT !.tab[major].minor[minor] = NULL ], dd),
                    major, minor + 1, physical_disk, dev, deleted_count + 1)
             ELSE CleanupScan_no_mark(m, major, minor + 1, physical_disk, dev, deleted_count)

(* the two nested loops of rtems_disk_cleanup, from slot (major, minor)    *)
(* on; the result carries deleted_count                                    *)
RECURSIVE CleanupScan(_, _, _, _, _, _)
CleanupScan(m, major, minor, physical_disk, dev, deleted_count) ==
  IF major >= m.tsize THEN [ m |-> m, deleted_count |-> deleted_count ]
  ELSE IF minor >= m.tab[major].size
    THEN CleanupScan(m, major + 1, 0, physical_disk, dev, deleted_count)
  ELSE LET dd == m.tab[major].minor[minor]
       IN  IF dd # NULL /\ m.heap[m.heap[dd].phys_dev].dev = dev /\ dd # physical_disk
             THEN IF m.heap[dd].uses = 0
                    THEN CleanupScan(
                           free_disk_device([ m EXCEPT !.tab[major].minor[minor] = NULL ], dd),
                           major, minor + 1, physical_disk, dev, deleted_count + 1)
                    ELSE CleanupScan([ m EXCEPT !.heap[dd].deleted = TRUE ],
                                     major, minor + 1, physical_disk, dev, deleted_count)
             ELSE CleanupScan(m, major, minor + 1, physical_disk, dev, deleted_count)

ClearSlot(m, dev) == [ m EXCEPT !.tab[Major(dev)].minor[Minor(dev)] = NULL ]

(* a cleanup that frees the disk whatever its use count is *)
rtems_disk_cleanup_any_uses(m, disk_to_remove) ==
  LET physical_disk == m.heap[disk_to_remove].phys_dev
  IN  IF m.heap[physical_disk].deleted
        THEN LET s == CleanupScan(m, 0, 0, physical_disk, m.heap[physical_disk].dev, 0)
                 m1 == [ s.m EXCEPT !.heap[physical_disk].uses =
                                       (@ - s.deleted_count) % UnsignedMod ]
             IN  free_disk_device(ClearSlot(m1, m1.heap[physical_disk].dev), physical_disk)
        ELSE free_disk_device(
               ClearSlot(DecUses(m, physical_disk), m.heap[disk_to_remove].dev),
               disk_to_remove)

(* rtems_disk_cleanup *)
rtems_disk_cleanup(m, disk_to_remove) ==
  LET physical_disk == m.heap[disk_to_remove].phys_dev
  IN  IF m.heap[physical_disk].deleted
        THEN LET s == CleanupScan(m, 0, 0, physical_disk, m.heap[physical_disk].dev, 0)
                 m1 == [ s.m EXCEPT !.heap[physical_disk].uses =
                                       (@ - s.deleted_count) % UnsignedMod ]
             IN  IF m1.heap[physical_disk].uses = 0
                   THEN free_disk_device(ClearSlot(m1, m1.heap[physical_disk].dev), physical_disk)
                   ELSE m1
        ELSE IF m.heap[disk_to_remove].uses = 0
               THEN free_disk_device(
                      ClearSlot(DecUses(m, physical_disk), m.heap[disk_to_remove].dev),
                      disk_to_remove)
               ELSE m

(* rtems_disk_delete between disk_lock and disk_unlock *)
delete_locked(m, dev) ==
  LET dd == get_disk_entry_dd(m, dev)
      m1 == get_disk_entry(m, dev)
  IN  IF dd = NULL THEN [ sc |-> "RTEMS_INVALID_ID", m |-> m1 ]
      ELSE [ sc |-> "RTEMS_SUCCESSFUL",
             m |-> rtems_disk_cleanup(
                     [ DecUses(m1, dd) EXCEPT !.heap[dd].deleted = TRUE ], dd) ]

(* rtems_disk_delete *)
rtems_disk_delete(m, dev) ==
  IF disk_lock_sc # "RTEMS_SUCCESSFUL" THEN [ sc |-> disk_lock_sc, m |-> m ]
  ELSE [ delete_locked(disk_lock(m, MainThread), dev) EXCEPT !.m = disk_unlock(@) ]

(* rtems_disk_obtain: the flag is clear between calls, so a call that is   *)
(* not interleaved with another takes the first branch                     *)
rtems_disk_obtain(m, dev) ==
  IF ~ m.protected
    THEN [ dd |-> get_disk_entry_dd(m, dev), m |-> get_disk_entry(m, dev) ]
    ELSE IF disk_lock_sc = "RTEMS_SUCCESSFUL"
           THEN [ dd |-> get_disk_entry_dd(m, dev),
                  m |-> disk_unlock(get_disk_entry(disk_lock(m, MainThread), dev)) ]
           ELSE [ dd |-> NULL, m |-> m ]

(* rtems_disk_release *)
rtems_disk_release(m, dd) ==
  LET dev == m.heap[dd].dev
      m1 == DecUses(m, dd)
      uses == m1.heap[dd].uses
      deleted == m1.heap[dd].deleted
  IN  IF uses = 0 /\ deleted THEN rtems_disk_delete(m1, dev).m ELSE m1

(* ---- the calls as steps of the program ---- *)

Commit(m) ==
  /\ disktab' = m.tab
  /\ disktab_size' = m.tsize
  /\ heap' = m.heap
  /\ registered' = m.registered
  /\ notified' = m.notified
  /\ diskdevs_protected' = m.protected
  /\ mutex_owner' = m.owner

(* the address malloc returns for the descriptor of dev *)
malloc(dev) == CHOOSE a \in Addrs : DevSeq[a] = dev

RECURSIVE SumTo(_, _)
SumTo(f, n) == IF n = 0 THEN 0 ELSE f[n] + SumTo(f, n - 1)
HeldRefs == SumTo(refs, Len(DevSeq))

(* results of rtems_disk_next that are not a descriptor of the table: the  *)
(* read of a slot outside an inner table (or of an inner table that is not *)
(* allocated) is undefined; it yields NULL, a pointer that is no           *)
(* descriptor (GARBAGE), or stops the program (CRASH)                      *)
GARBAGE == 0 - 1
CRASH == 0 - 2

(* the program runs until a call has stopped it *)
Running == last.dd # CRASH

(* rtems_disk_io_initialize from the calloc of the table on; env is what   *)
(* the environment does to the call: calloc, rtems_semaphore_create or     *)
(* rtems_bdbuf_init fails, or none does.  A semaphore is created available. *)
initialize_fresh(env) ==
  IF env = "nomem"
    THEN /\ disktab_ptr' = "NULL"
         /\ last' = Call("initialize", <<0, 0>>, "RTEMS_NO_MEMORY", NULL)
         /\ UNCHANGED << disktab, disktab_size, diskdevs_mutex, diskdevs_protected,
                         mutex_owner, bdbuf_inits >>
  ELSE IF env = "sem_fail"
    THEN /\ disktab_ptr' = "FREED"
         /\ diskdevs_protected' = FALSE
         /\ last' = Call("initialize", <<0, 0>>, "RTEMS_NO_MEMORY", NULL)
         /\ UNCHANGED << disktab, disktab_size, diskdevs_mutex, mutex_owner, bdbuf_inits >>
  ELSE IF env = "bdbuf_fail"
    THEN /\ disktab_ptr' = "FREED"
         /\ diskdevs_protected' = FALSE
         /\ diskdevs_mutex' = "STALE"
         /\ mutex_owner' = 0
         /\ last' = Call("initialize", <<0, 0>>, "RTEMS_UNSATISFIED", NULL)
         /\ UNCHANGED << disktab, disktab_size, bdbuf_inits >>
  ELSE /\ disktab_ptr' = "ALLOCATED"
       /\ disktab' = [ i \in 0 .. DISKTAB_INITIAL_SIZE - 1 |-> EmptyTable ]
       /\ disktab_size' = DISKTAB_INITIAL_SIZE
       /\ diskdevs_protected' = FALSE
       /\ diskdevs_mutex' = "VALID"
       /\ mutex_owner' = 0
       /\ bdbuf_inits' = bdbuf_inits + 1
       /\ last' = Call("initialize", <<0, 0>>, "RTEMS_SUCCESSFUL", NULL)

(* an initialize that does not test disktab_size first *)
Initialize_no_test(env) ==
  /\ Running
  /\ env = "ok" => bdbuf_inits < MaxInits
  /\ initialize_fresh(env)
  /\ UNCHANGED << heap, registered, notified, refs, thr >>

(* rtems_disk_io_initialize; the buffer cache is initialized at most       *)
(* MaxInits times                                                          *)
Initialize(env) ==
  /\ Running
  /\ (disktab_size = 0 /\ env = "ok") => bdbuf_inits < MaxInits
  /\ IF disktab_size > 0
       THEN /\ last' = Call("initialize", <<0, 0>>, "RTEMS_SUCCESSFUL", NULL)
            /\ UNCHANGED << disktab_ptr, disktab, disktab_size, diskdevs_mutex,
                            diskdevs_protected, mutex_owner, bdbuf_inits >>
       ELSE initialize_fresh(env)
  /\ UNCHANGED << heap, registered, notified, refs, thr >>

CreatePhys(dev, block_size, block_count, handler, name, env) ==
  /\ Running
  /\ \E r \in { rtems_disk_create_phys(Mem, dev, block_size, block_count, handler, name, env,
                                         malloc(dev)) } :
       /\ Commit(r.m)
       /\ last' = Call("create_phys", dev, r.sc, NULL)
  /\ UNCHANGED << disktab_ptr, diskdevs_mutex, refs, bdbuf_inits, thr >>

CreateLog(dev, phys, begin_block, block_count, name, env) ==
  /\ Running
  /\ \E r \in { rtems_disk_create_log(Mem, dev, phys, begin_block, block_count, name, env,
                                        malloc(dev)) } :
       /\ Commit(r.m)
       /\ last' = Call("create_log", dev, r.sc, NULL)
  /\ UNCHANGED << disktab_ptr, diskdevs_mutex, refs, bdbuf_inits, thr >>

Delete(dev) ==
  /\ Running
  /\ LET r == rtems_disk_delete(Mem, dev)
     IN  /\ Commit(r.m)
         /\ last' = Call("delete", dev, r.sc, NULL)
  /\ UNCHANGED << disktab_ptr, diskdevs_mutex, refs, bdbuf_inits, thr >>

(* rtems_disk_obtain by a caller; callers hold at most cap pointers *)
Obtain(dev, cap) ==
  /\ Running
  /\ rtems_disk_obtain(Mem, dev).dd # NULL => HeldRefs < cap
  /\ LET r == rtems_disk_obtain(Mem, dev)
     IN  /\ Commit(r.m)
         /\ refs' = IF r.dd # NULL THEN [ refs EXCEPT ![r.dd] = @ + 1 ] ELSE refs
         /\ last' = Call("obtain", dev, "", r.dd)
  /\ UNCHANGED << disktab_ptr, diskdevs_mutex, bdbuf_inits, thr >>

(* a caller releases a pointer it holds from rtems_disk_obtain.  When the  *)
(* descriptor has been freed under the caller (rtems_disk_io_done does     *)
(* that), the call reads and writes freed memory: it stops the program or  *)
(* goes unnoticed by the registry.                                         *)
Release(dd) ==
  /\ Running
  /\ refs[dd] > 0
  /\ IF heap[dd].st = "live"
       THEN /\ Commit(rtems_disk_release(Mem, dd))
            /\ last' = Call("release", heap[dd].dev, "RTEMS_SUCCESSFUL", dd)
       ELSE /\ \E out \in { dd, CRASH } : last' = Call("release", <<0, 0>>, "RTEMS_SUCCESSFUL", out)
            /\ UNCHANGED << disktab, disktab_size, heap, registered, notified,
                            diskdevs_protected, mutex_owner >>
  /\ refs' = [ refs EXCEPT ![dd] = @ - 1 ]
  /\ UNCHANGED << disktab_ptr, diskdevs_mutex, bdbuf_inits, thr >>

(* ---- rtems_disk_io_done ---- *)

(* a teardown that leaves the descriptors in use alone *)
RECURSIVE DoneScan_skip_used(_, _, _)
DoneScan_skip_used(m, major, minor) ==
  IF major >= m.tsize THEN m
  ELSE IF minor >= m.tab[major].size THEN DoneScan_skip_used(m, major + 1, 0)
  ELSE LET dd == m.tab[major].minor[minor]
       IN  IF dd # NULL /\ m.heap[dd].uses = 0
             THEN DoneScan_skip_used(free_disk_device(m, dd), major, minor + 1)
             ELSE DoneScan_skip_used(m, major, minor + 1)

(* the two nested loops of rtems_disk_io_done, from slot (major, minor) on *)
RECURSIVE DoneScan(_, _, _)
DoneScan(m, major, minor) ==
  IF major >= m.tsize THEN m
  ELSE IF minor >= m.tab[major].size THEN DoneScan(m, major + 1, 0)
  ELSE LET dd == m.tab[major].minor[minor]
       IN  IF dd # NULL
             THEN DoneScan(free_disk_device(m, dd), major, minor + 1)
             ELSE DoneScan(m, major, minor + 1)

(* rtems_disk_io_done.  After an initialize that failed past its calloc,   *)
(* disktab still points to the table that initialize freed, and            *)
(* free(disktab) frees it a second time: the call stops the program or     *)
(* goes on.  rtems_semaphore_delete of an id that names no semaphore       *)
(* returns a status that is not looked at.                                 *)
IoDone ==
  /\ Running
  /\ LET m == DoneScan(Mem, 0, 0)
     IN  /\ heap' = m.heap
         /\ registered' = m.registered
         /\ notified' = m.notified
  /\ disktab' = [ i \in {} |-> EmptyTable ]
  /\ disktab_ptr' = "NULL"
  /\ disktab_size' = 0
  /\ diskdevs_mutex' = "NONE"
  /\ mutex_owner' = 0
  /\ \E out \in ( IF disktab_ptr = "FREED" THEN { NULL, CRASH } ELSE { NULL } ) :
        last' = Call("done", <<0, 0>>, "RTEMS_SUCCESSFUL", out)
  /\ UNCHANGED << diskdevs_protected, refs, bdbuf_inits, thr >>

(* ---- rtems_disk_next ---- *)

(* dev++ on the device number that splits into <<major, minor>> *)
IncDev(dev) ==
  IF Minor(dev) = MaxUnsigned
    THEN << (Major(dev) + 1) % UnsignedMod, 0 >>
    ELSE << Major(dev), Minor(dev) + 1 >>

(* the loop of rtems_disk_next from (major, minor) on: the set of results  *)
(* the call can have (dtab == NULL is never true of disktab + major)       *)
RECURSIVE NextScan(_, _)
NextScan(major, minor) ==
  IF minor > disktab[major].size
    THEN IF major + 1 >= disktab_size THEN { NULL } ELSE NextScan(major + 1, 0)
    ELSE IF ~ disktab[major].alloc \/ minor = disktab[major].size
      THEN { GARBAGE, CRASH } \cup NextScan(major, minor + 1)
      ELSE IF disktab[major].minor[minor] = NULL
        THEN NextScan(major, minor + 1)
        ELSE { disktab[major].minor[minor] }

(* rtems_disk_next: the set of results of the call *)
rtems_disk_next(dev) ==
  IF Major(IncDev(dev)) >= disktab_size
    THEN { NULL }
    ELSE NextScan(Major(IncDev(dev)), Minor(IncDev(dev)))

(* the device number below all others: rtems_disk_next starts at <<0, 0>> *)
BelowAll == << MaxUnsigned, MaxUnsigned >>

DiskNext(dev) ==
  /\ Running
  /\ \E dd \in rtems_disk_next(dev) : last' = Call("next", dev, "", dd)
  /\ UNCHANGED << disktab_ptr, disktab, disktab_size, diskdevs_mutex, diskdevs_protected,
                  heap, registered, notified, refs, mutex_owner, bdbuf_inits, thr >>

Next ==
  \/ \E env \in InitEnvs : Initialize(env)
  \/ \E dev \in Devs, bs \in BlockSizes, bc \in PhysCounts, h \in Handlers, ne \in NameEnvs :
        CreatePhys(dev, bs, bc, h, ne[1], ne[2])
  \/ \E dev \in Devs, phys \in Devs, r \in Ranges, ne \in NameEnvs :
        CreateLog(dev, phys, r[1], r[2], ne[1], ne[2])
  \/ \E dev \in Devs : Delete(dev)
  \/ \E dev \in Devs : Obtain(dev, MaxRefs)
  \/ \E dd \in Addrs : Release(dd)
  \/ \E dev \in Devs \cup { BelowAll } : DiskNext(dev)

Spec == Init /\ [][Next]_vars

NextArgs ==
  \/ \E env \in InitEnvs : Initialize(env)
  \/ \E dev \in ArgDevs, c \in ArgPhysCalls : CreatePhys(dev, c[1], c[2], c[3], c[4], c[5])
  \/ \E dev \in ArgDevs, phys \in ArgDevs, c \in ArgLogCalls :
        CreateLog(dev, phys, c[1], c[2], c[3], c[4])
  \/ \E dev \in ArgDevs : Delete(dev)
  \/ \E dev \in ArgDevs : Obtain(dev, MaxArgRefs)
  \/ \E dd \in Addrs : Release(dd)

SpecArgs == Init /\ [][NextArgs]_vars

(* the calls of Spec but rtems_disk_next, on two devices, and              *)
(* rtems_disk_io_done                                                      *)
DoneDevs == { DevSeq[1], DevSeq[2] }

NextDone ==
  \/ \E env \in InitEnvs : Initialize(env)
  \/ \E dev \in DoneDevs, bs \in BlockSizes, bc \in PhysCounts, h \in Handlers, ne \in NameEnvs :
        CreatePhys(dev, bs, bc, h, ne[1], ne[2])
  \/ \E dev \in DoneDevs, phys \in DoneDevs, r \in Ranges, ne \in NameEnvs :
        CreateLog(dev, phys, r[1], r[2], ne[1], ne[2])
  \/ \E dev \in DoneDevs : Delete(dev)
  \/ \E dev \in DoneDevs : Obtain(dev, MaxRefs)
  \/ \E dd \in Addrs : Release(dd)
  \/ IoDone

SpecDone == Init /\ [][NextDone]_vars

(* ---- the calls as interleaved steps of threads ---- *)

(* The threads call create_phys on ThrPhys, create_log on ThrLog with the  *)
(* physical disk ThrPhys, and delete, obtain and release on both, in a     *)
(* registry that rtems_disk_io_initialize has initialized.                 *)
ThrPhys == DevSeq[1]
ThrLog == DevSeq[2]
ThrDevs == { ThrPhys, ThrLog }

InitThreads ==
  /\ disktab_ptr = "ALLOCATED"
  /\ disktab = [ i \in 0 .. DISKTAB_INITIAL_SIZE - 1 |-> EmptyTable ]
  /\ disktab_size = DISKTAB_INITIAL_SIZE
  /\ diskdevs_mutex = "VALID"
  /\ diskdevs_protected = FALSE
  /\ heap = [ a \in Addrs |-> NoDesc("free") ]
  /\ registered = {}
  /\ notified = [ a \in Addrs |-> 0 ]
  /\ refs = [ a \in Addrs |-> 0 ]
  /\ last = Call("initialize", <<0, 0>>, "RTEMS_SUCCESSFUL", NULL)
  /\ mutex_owner = 0
  /\ bdbuf_inits = 1
  /\ pc = [ t \in Threads |-> "idle" ]
  /\ loc = [ t \in Threads |-> NoLocals ]
  /\ races = 0

(* the statements between the return of rtems_semaphore_obtain in          *)
(* disk_lock and the return of rtems_semaphore_release in disk_unlock ...  *)
LockedPCs == { "flag", "get", "inc_r", "inc_w", "check", "create", "dec_r", "dec_w", "mark",
               "scan", "sub_r", "sub_w", "free_phys", "log_test", "pdec_r", "pdec_w",
               "unflag", "unlock" }

(* ... and those between diskdevs_protected = true and = false *)
FlagPCs == LockedPCs \ { "flag", "unlock" }

(* the locals l of the threads once the heap has become hp: a thread whose *)
(* rtems_disk_release has decremented the use count of a descriptor that   *)
(* is freed now holds a stale pointer                                      *)
NoteFreed(l, hp) ==
  [ t \in Threads |->
      IF l[t].rel # NULL /\ heap[l[t].rel].st = "live" /\ hp[l[t].rel].st = "free"
        THEN [ l[t] EXCEPT !.stale = TRUE ]
        ELSE l[t] ]

(* thread t goes to statement to with locals l and leaves the memory m *)
Goto(t, to, l, m) ==
  /\ pc' = [ pc EXCEPT ![t] = to ]
  /\ loc' = NoteFreed([ loc EXCEPT ![t] = l ], m.heap)
  /\ Commit(m)
  /\ UNCHANGED << disktab_ptr, diskdevs_mutex, bdbuf_inits >>

(* a step inside a call *)
Step(t, to, l, m) ==
  /\ Goto(t, to, l, m)
  /\ UNCHANGED << last, refs, races >>

(* the call of thread t returns.  The calls of threads overlap, and last   *)
(* records none of them but one that stops the program.                    *)
Return(t, m) ==
  /\ Goto(t, "idle", NoLocals, m)
  /\ UNCHANGED << last, races >>

(* the call of thread t returns the pointer out, or stops the program *)
ReturnOrCrash(t, out, m) ==
  /\ Goto(t, "idle", NoLocals, m)
  /\ last' = IF out = CRASH THEN Call(loc[t].op, loc[t].dev, "", CRASH) ELSE last

(* a thread has read the use count of dd and not yet written it back *)
InUpdate(dd) ==
  \E u \in Threads :
    \/ pc[u] \in { "inc_w", "dec_w" } /\ loc[u].dd = dd
    \/ pc[u] \in { "sub_w", "pdec_w" } /\ heap[loc[u].dd].phys_dev = dd

(* pointers callers hold or are about to get from an rtems_disk_obtain in  *)
(* progress                                                                *)
InObtain == Cardinality({ t \in Threads : pc[t] # "idle" /\ loc[t].op = "obtain" })

(* rtems_disk_create_phys up to disk_lock (the arguments are valid) *)
ThrCreatePhys(t) ==
  /\ Running
  /\ pc[t] = "idle"
  /\ Step(t, "lock", [ NoLocals EXCEPT !.op = "create_phys", !.dev = ThrPhys ], Mem)

(* rtems_disk_create_log up to disk_lock *)
ThrCreateLog(t) ==
  /\ Running
  /\ pc[t] = "idle"
  /\ Step(t, "lock", [ NoLocals EXCEPT !.op = "create_log", !.dev = ThrLog, !.phys = ThrPhys ], Mem)

(* rtems_disk_delete up to disk_lock *)
ThrDelete(t, dev) ==
  /\ Running
  /\ pc[t] = "idle"
  /\ Step(t, "lock", [ NoLocals EXCEPT !.op = "delete", !.dev = dev ], Mem)

(* an rtems_disk_obtain that does not look at the flag *)
ThrObtain_no_flag(t, dev) ==
  /\ Running
  /\ pc[t] = "idle"
  /\ HeldRefs + InObtain < MaxThrRefs
  /\ Return(t, get_disk_entry(Mem, dev))
  /\ refs' = IF get_disk_entry_dd(Mem, dev) # NULL
               THEN [ refs EXCEPT ![get_disk_entry_dd(Mem, dev)] = @ + 1 ]
               ELSE refs

(* rtems_disk_obtain on one processor: the section with interrupts         *)
(* disabled is one step.  It reads the flag and either looks the device up *)
(* and returns, or leaves the lookup to the statements after disk_lock.    *)
ThrObtain(t, dev) ==
  /\ Running
  /\ pc[t] = "idle"
  /\ HeldRefs + InObtain < MaxThrRefs
  /\ IF ~ diskdevs_protected
       THEN /\ Return(t, get_disk_entry(Mem, dev))
            /\ refs' = IF get_disk_entry_dd(Mem, dev) # NULL
                         THEN [ refs EXCEPT ![get_disk_entry_dd(Mem, dev)] = @ + 1 ]
                         ELSE refs
       ELSE Step(t, "lock", [ NoLocals EXCEPT !.op = "obtain", !.dev = dev ], Mem)

(* rtems_disk_release of a pointer a caller holds: the section with        *)
(* interrupts disabled is one step; the call returns or goes on to         *)
(* rtems_disk_delete(dev).  The release of a descriptor that has been      *)
(* freed stops the program or goes unnoticed.                              *)
ThrRelease(t, dd) ==
  /\ Running
  /\ pc[t] = "idle"
  /\ refs[dd] > 0
  /\ InUpdate(dd) => races < MaxRaces
  /\ races' = IF InUpdate(dd) THEN races + 1 ELSE races
  /\ refs' = [ refs EXCEPT ![dd] = @ - 1 ]
  /\ IF heap[dd].st = "live"
       THEN LET m == DecUses(Mem, dd)
            IN  IF m.heap[dd].uses = 0 /\ m.heap[dd].deleted
                  THEN /\ Goto(t, "lock", [ NoLocals EXCEPT !.op = "release",
                                             !.dev = heap[dd].dev, !.rel = dd ], m)
                       /\ UNCHANGED last
                  ELSE /\ Goto(t, "idle", NoLocals, m)
                       /\ UNCHANGED last
       ELSE \E out \in { dd, CRASH } : ReturnOrCrash(t, out, Mem)

(* a disk_lock that does not wait for the semaphore *)
ThrLock_no_wait(t) ==
  /\ Running
  /\ pc[t] = "lock"
  /\ Step(t, "flag", loc[t], [ Mem EXCEPT !.owner = t ])

(* disk_lock: rtems_semaphore_obtain returns once the semaphore is         *)
(* available, and thread t holds it                                        *)
ThrLock(t) ==
  /\ Running
  /\ pc[t] = "lock"
  /\ mutex_owner = 0
  /\ Step(t, "flag", loc[t], [ Mem EXCEPT !.owner = t ])

(* disk_lock: diskdevs_protected = true *)
ThrFlag(t) ==
  /\ Running
  /\ pc[t] = "flag"
  /\ Step(t, IF loc[t].op = "create_phys" THEN "create" ELSE "get", loc[t],
          [ Mem EXCEPT !.protected = TRUE ])

(* get_disk_entry up to ++dd->uses: of phys in rtems_disk_create_log, of   *)
(* dev in rtems_disk_delete and rtems_disk_obtain                          *)
ThrGet(t) ==
  /\ Running
  /\ pc[t] = "get"
  /\ LET dd == get_disk_entry_dd(Mem, IF loc[t].op = "create_log" THEN loc[t].phys
                                                                 ELSE loc[t].dev)
     IN  IF dd = NULL
           THEN Step(t, "unflag", [ loc[t] EXCEPT !.sc = "RTEMS_INVALID_ID" ], Mem)
           ELSE Step(t, "inc_r", [ loc[t] EXCEPT !.dd = dd ], Mem)

(* ++dd->uses, the read *)
ThrIncRead(t) ==
  /\ Running
  /\ pc[t] = "inc_r"
  /\ Step(t, "inc_w", [ loc[t] EXCEPT !.uses = heap[loc[t].dd].uses ], Mem)

(* ++dd->uses, the write; then the caller of get_disk_entry goes on *)
ThrIncWrite(t) ==
  /\ Running
  /\ pc[t] = "inc_w"
  /\ LET m == [ Mem EXCEPT !.heap[loc[t].dd].uses = (loc[t].uses + 1) % UnsignedMod ]
         l == [ loc[t] EXCEPT !.uses = 0 ]
     IN  IF loc[t].op = "obtain" THEN Step(t, "unflag", l, m)
         ELSE IF loc[t].op = "create_log" THEN Step(t, "check", l, m)
         ELSE Step(t, "dec_r", [ l EXCEPT !.next = "mark" ], m)

(* rtems_disk_create_log: the tests of the physical disk and of the range  *)
(* (the threads of this specification call with the range <<0, 3>>)        *)
ThrCheck(t) ==
  /\ Running
  /\ pc[t] = "check"
  /\ IF ~ is_physical_disk(Mem, loc[t].dd)
       THEN Step(t, "dec_r", [ loc[t] EXCEPT !.sc = "RTEMS_INVALID_ID", !.next = "unflag" ], Mem)
       ELSE IF InvalidRange(0, 3, heap[loc[t].dd].size)
         THEN Step(t, "dec_r", [ loc[t] EXCEPT !.sc = "RTEMS_INVALID_NUMBER",
                                               !.next = "unflag" ], Mem)
         ELSE Step(t, "create", loc[t], Mem)

(* the fields rtems_disk_create_log fills in *)
fill_log(m, dd, physical_disk, begin_block, block_count) ==
  [ m EXCEPT !.heap[dd].phys_dev = physical_disk,
             !.heap[dd].start = begin_block,
             !.heap[dd].size = block_count,
             !.heap[dd].block_size = m.heap[physical_disk].block_size,
             !.heap[dd].media_block_size = m.heap[physical_disk].block_size,
             !.heap[dd].ioctl = m.heap[physical_disk].ioctl ]

(* create_disk and the statements that fill the new descriptor in *)
ThrCreate(t) ==
  /\ Running
  /\ pc[t] = "create"
  /\ IF loc[t].op = "create_phys"
       THEN LET r == create_phys_locked(Mem, loc[t].dev, 512, 4, 1, NULL, "ok", malloc(loc[t].dev))
            IN  Step(t, "unflag", [ loc[t] EXCEPT !.sc = r.sc ], r.m)
       ELSE LET c == create_disk(Mem, loc[t].dev, NULL, "ok", malloc(loc[t].dev))
            IN  IF c.sc # "RTEMS_SUCCESSFUL"
                  THEN Step(t, "dec_r", [ loc[t] EXCEPT !.sc = c.sc, !.next = "unflag" ], c.m)
                  ELSE Step(t, "unflag", [ loc[t] EXCEPT !.sc = "RTEMS_SUCCESSFUL" ],
                            fill_log(c.m, c.dd, loc[t].dd, 0, 3))

(* --dd->uses (rtems_disk_delete) and --physical_disk->uses                *)
(* (rtems_disk_create_log), the read ...                                   *)
ThrDecRead(t) ==
  /\ Running
  /\ pc[t] = "dec_r"
  /\ Step(t, "dec_w", [ loc[t] EXCEPT !.uses = heap[loc[t].dd].uses ], Mem)

(* ... and the write *)
ThrDecWrite(t) ==
  /\ Running
  /\ pc[t] = "dec_w"
  /\ Step(t, loc[t].next, [ loc[t] EXCEPT !.uses = 0, !.next = "" ],
          [ Mem EXCEPT !.heap[loc[t].dd].uses = (loc[t].uses - 1) % UnsignedMod ])

(* rtems_disk_delete: dd->deleted = true, and the test of                  *)
(* physical_disk->deleted in rtems_disk_cleanup                            *)
ThrMark(t) ==
  /\ Running
  /\ pc[t] = "mark"
  /\ LET m == [ Mem EXCEPT !.heap[loc[t].dd].deleted = TRUE ]
     IN  IF m.heap[m.heap[loc[t].dd].phys_dev].deleted
           THEN Step(t, "scan", [ loc[t] EXCEPT !.sc = "RTEMS_SUCCESSFUL" ], m)
           ELSE Step(t, "log_test", [ loc[t] EXCEPT !.sc = "RTEMS_SUCCESSFUL" ], m)

(* rtems_disk_cleanup of a physical disk that is deleted: the loops over   *)
(* the table                                                               *)
ThrScan(t) ==
  /\ Running
  /\ pc[t] = "scan"
  /\ LET physical_disk == heap[loc[t].dd].phys_dev
         sc == CleanupScan(Mem, 0, 0, physical_disk, heap[physical_disk].dev, 0)
     IN  Step(t, "sub_r", [ loc[t] EXCEPT !.deleted_count = sc.deleted_count ], sc.m)

(* physical_disk->uses -= deleted_count, the read ... *)
ThrSubRead(t) ==
  /\ Running
  /\ pc[t] = "sub_r"
  /\ Step(t, "sub_w", [ loc[t] EXCEPT !.uses = heap[heap[loc[t].dd].phys_dev].uses ], Mem)

(* ... and the write, with the test of the value written *)
ThrSubWrite(t) ==
  /\ Running
  /\ pc[t] = "sub_w"
  /\ LET uses == (loc[t].uses - loc[t].deleted_count) % UnsignedMod
         m == [ Mem EXCEPT !.heap[heap[loc[t].dd].phys_dev].uses = uses ]
     IN  Step(t, IF uses = 0 THEN "free_phys" ELSE "unflag",
              [ loc[t] EXCEPT !.uses = 0, !.deleted_count = 0 ], m)

(* the slot of the physical disk is cleared and the disk freed *)
ThrFreePhys(t) ==
  /\ Running
  /\ pc[t] = "free_phys"
  /\ LET physical_disk == heap[loc[t].dd].phys_dev
     IN  Step(t, "unflag", loc[t],
              free_disk_device(ClearSlot(Mem, heap[physical_disk].dev), physical_disk))

(* rtems_disk_cleanup of a disk whose physical disk is not deleted: the    *)
(* test disk_to_remove->uses == 0                                          *)
ThrLogTest(t) ==
  /\ Running
  /\ pc[t] = "log_test"
  /\ Step(t, IF heap[loc[t].dd].uses = 0 THEN "pdec_r" ELSE "unflag", loc[t], Mem)

(* --physical_disk->uses, the read ... *)
ThrPhysDecRead(t) ==
  /\ Running
  /\ pc[t] = "pdec_r"
  /\ Step(t, "pdec_w", [ loc[t] EXCEPT !.uses = heap[heap[loc[t].dd].phys_dev].uses ], Mem)

(* ... and the write; the slot of the disk is cleared and the disk freed *)
ThrPhysDecWrite(t) ==
  /\ Running
  /\ pc[t] = "pdec_w"
  /\ LET m == [ Mem EXCEPT !.heap[heap[loc[t].dd].phys_dev].uses = (loc[t].uses - 1) % UnsignedMod ]
     IN  Step(t, "unflag", [ loc[t] EXCEPT !.uses = 0 ],
              free_disk_device(ClearSlot(m, heap[loc[t].dd].dev), loc[t].dd))

(* disk_unlock: diskdevs_protected = false *)
ThrUnflag(t) ==
  /\ Running
  /\ pc[t] = "unflag"
  /\ Step(t, "unlock", loc[t], [ Mem EXCEPT !.protected = FALSE ])

(* disk_unlock: rtems_semaphore_release, and the return of the call *)
ThrUnlock(t) ==
  /\ Running
  /\ pc[t] = "unlock"
  /\ IF loc[t].op = "obtain"
       THEN /\ Return(t, [ Mem EXCEPT !.owner = 0 ])
            /\ refs' = IF loc[t].dd # NULL THEN [ refs EXCEPT ![loc[t].dd] = @ + 1 ] ELSE refs
       ELSE /\ Return(t, [ Mem EXCEPT !.owner = 0 ])
            /\ UNCHANGED refs

(* threads on one processor *)
NextUni ==
  \/ \E t \in Threads : ThrCreatePhys(t)
  \/ \E t \in Threads : ThrCreateLog(t)
  \/ \E t \in Threads, dev \in ThrDevs : ThrDelete(t, dev)
  \/ \E t \in Threads, dev \in ThrDevs : ThrObtain(t, dev)
  \/ \E t \in Threads, dd \in Addrs : ThrRelease(t, dd)
  \/ \E t \in Threads : ThrLock(t)
  \/ \E t \in Threads : ThrFlag(t)
  \/ \E t \in Threads : ThrGet(t)
  \/ \E t \in Threads : ThrIncRead(t)
  \/ \E t \in Threads : ThrIncWrite(t)
  \/ \E t \in Threads : ThrCheck(t)
  \/ \E t \in Threads : ThrCreate(t)
  \/ \E t \in Threads : ThrDecRead(t)
  \/ \E t \in Threads : ThrDecWrite(t)
  \/ \E t \in Threads : ThrMark(t)
  \/ \E t \in Threads : ThrScan(t)
  \/ \E t \in Threads : ThrSubRead(t)
  \/ \E t \in Threads : ThrSubWrite(t)
  \/ \E t \in Threads : ThrFreePhys(t)
  \/ \E t \in Threads : ThrLogTest(t)
  \/ \E t \in Threads : ThrPhysDecRead(t)
  \/ \E t \in Threads : ThrPhysDecWrite(t)
  \/ \E t \in Threads : ThrUnflag(t)
  \/ \E t \in Threads : ThrUnlock(t)

SpecUni == InitThreads /\ [][NextUni]_vars

(* rtems_disk_obtain with the other thread on a second processor:         *)
(* rtems_interrupt_disable keeps the other thread from nothing, and the    *)
(* read of the flag, the read of the slot and the access to the descriptor *)
(* are steps of their own.  First the read of diskdevs_protected.          *)
SmpObtain(t, dev) ==
  /\ Running
  /\ pc[t] = "idle"
  /\ HeldRefs + InObtain < MaxThrRefs
  /\ Step(t, IF ~ diskdevs_protected THEN "fast_get" ELSE "lock",
          [ NoLocals EXCEPT !.op = "obtain", !.dev = dev ], Mem)

(* get_disk_entry without the lock: the read of the slot *)
SmpFastGet(t) ==
  /\ Running
  /\ pc[t] = "fast_get"
  /\ IF SlotIn(disktab, disktab_size, loc[t].dev) = NULL
       THEN /\ Return(t, Mem)
            /\ UNCHANGED refs
       ELSE Step(t, "fast_inc", [ loc[t] EXCEPT !.dd = SlotIn(disktab, disktab_size, loc[t].dev) ],
                 Mem)

(* get_disk_entry without the lock: !dd->deleted and ++dd->uses, and the   *)
(* return of rtems_disk_obtain.  When the descriptor has been freed since  *)
(* the slot was read, the test reads freed memory and the increment writes *)
(* to it: the call returns NULL, returns the pointer to the freed          *)
(* descriptor, or stops the program.                                       *)
SmpFastInc(t) ==
  /\ Running
  /\ pc[t] = "fast_inc"
  /\ LET dd == loc[t].dd
         race == heap[dd].st = "live" /\ ~ heap[dd].deleted /\ InUpdate(dd)
     IN  /\ race => races < MaxRaces
         /\ races' = IF race THEN races + 1 ELSE races
         /\ IF heap[dd].st = "live"
              THEN IF heap[dd].deleted
                     THEN /\ ReturnOrCrash(t, NULL, Mem)
                          /\ UNCHANGED refs
                     ELSE /\ ReturnOrCrash(t, dd, [ Mem EXCEPT !.heap[dd].uses = (@ + 1) % UnsignedMod ])
                          /\ refs' = [ refs EXCEPT ![dd] = @ + 1 ]
              ELSE \E out \in { NULL, dd, CRASH } :
                     /\ ReturnOrCrash(t, out, Mem)
                     /\ refs' = IF out = dd THEN [ refs EXCEPT ![dd] = @ + 1 ] ELSE refs

(* threads on two processors *)
NextSMP ==
  \/ \E t \in Threads : ThrCreatePhys(t)
  \/ \E t \in Threads : ThrCreateLog(t)
  \/ \E t \in Threads, dev \in ThrDevs : ThrDelete(t, dev)
  \/ \E t \in Threads, dev \in ThrDevs : SmpObtain(t, dev)
  \/ \E t \in Threads : SmpFastGet(t)
  \/ \E t \in Threads : SmpFastInc(t)
  \/ \E t \in Threads, dd \in Addrs : ThrRelease(t, dd)
  \/ \E t \in Threads : ThrLock(t)
  \/ \E t \in Threads : ThrFlag(t)
  \/ \E t \in Threads : ThrGet(t)
  \/ \E t \in Threads : ThrIncRead(t)
  \/ \E t \in Threads : ThrIncWrite(t)
  \/ \E t \in Threads : ThrCheck(t)
  \/ \E t \in Threads : ThrCreate(t)
  \/ \E t \in Threads : ThrDecRead(t)
  \/ \E t \in Threads : ThrDecWrite(t)
  \/ \E t \in Threads : ThrMark(t)
  \/ \E t \in Threads : ThrScan(t)
  \/ \E t \in Threads : ThrSubRead(t)
  \/ \E t \in Threads : ThrSubWrite(t)
  \/ \E t \in Threads : ThrFreePhys(t)
  \/ \E t \in Threads : ThrLogTest(t)
  \/ \E t \in Threads : ThrPhysDecRead(t)
  \/ \E t \in Threads : ThrPhysDecWrite(t)
  \/ \E t \in Threads : ThrUnflag(t)
  \/ \E t \in Threads : ThrUnlock(t)

SpecSMP == InitThreads /\ [][NextSMP]_vars

(* a step of thread t between its disk_lock and its return.  A thread     *)
(* that is ready runs: the scheduler is fair and nothing in these         *)
(* statements waits (the driver's handler returns).                       *)
InCall(t) ==
  \/ ThrFlag(t)
  \/ ThrGet(t)
  \/ ThrIncRead(t)
  \/ ThrIncWrite(t)
  \/ ThrCheck(t)
  \/ ThrCreate(t)
  \/ ThrDecRead(t)
  \/ ThrDecWrite(t)
  \/ ThrMark(t)
  \/ ThrScan(t)
  \/ ThrSubRead(t)
  \/ ThrSubWrite(t)
  \/ ThrFreePhys(t)
  \/ ThrLogTest(t)
  \/ ThrPhysDecRead(t)
  \/ ThrPhysDecWrite(t)
  \/ ThrUnflag(t)
  \/ ThrUnlock(t)

(* threads on one processor under a fair scheduler.  diskdevs_mutex is    *)
(* created with RTEMS_FIFO: the threads that wait for it get it in the    *)
(* order of their calls, so a thread that waits is not passed over for    *)
(* ever.  Nothing makes a caller start a call.                            *)
SpecUniFair ==
  /\ InitThreads
  /\ [][NextUni]_vars
  /\ \A t \in Threads : WF_vars(InCall(t)) /\ SF_vars(ThrLock(t))

(* threads on two processors under a fair scheduler: a thread inside the  *)
(* fast path of rtems_disk_obtain runs on as well                         *)
SpecSMPFair ==
  /\ InitThreads
  /\ [][NextSMP]_vars
  /\ \A t \in Threads :
       /\ WF_vars(InCall(t) \/ SmpFastGet(t) \/ SmpFastInc(t))
       /\ SF_vars(ThrLock(t))

(* ---- properties ---- *)

Slot(dev) == SlotIn(disktab, disktab_size, dev)
Present == { a \in Addrs : heap[a].st = "live" /\ Slot(heap[a].dev) = a }
IsPhysical(a) == heap[a].phys_dev = a
Pending(a) == heap[a].deleted
ChildrenOf(p) == { c \in Present : c # p /\ heap[c].phys_dev = p }

(* C1: in an initialized registry, rtems_disk_create_phys on an identifier *)
(* whose slot is empty, with block_size > 0 and a non-null handler, in an  *)
(* environment whose allocations and name registration succeed, returns    *)
(* RTEMS_SUCCESSFUL, and rtems_disk_obtain on the same identifier right     *)
(* after it returns the descriptor of that slot with the supplied          *)
(* block_size and block_count, start 0, itself as physical disk and a use  *)
(* count of exactly 1.                                                     *)
C1_CreatePhysThenObtain ==
  \A dev \in ArgDevs, bs \in ArgBlockSizes, bc \in ArgPhysCounts, h \in ArgHandlers,
     ne \in ArgNameEnvs :
    ( /\ diskdevs_mutex = "VALID"
      /\ Slot(dev) = NULL
      /\ bs > 0
      /\ h # NULL
      /\ ne[2] = "ok" )
    => LET c == rtems_disk_create_phys(Mem, dev, bs, bc, h, ne[1], ne[2], malloc(dev))
           o == rtems_disk_obtain(c.m, dev)
       IN  /\ c.sc = "RTEMS_SUCCESSFUL"
           /\ o.dd # NULL
           /\ o.dd = SlotIn(c.m.tab, c.m.tsize, dev)
           /\ o.m.heap[o.dd].st = "live"
           /\ o.m.heap[o.dd].dev = dev
           /\ o.m.heap[o.dd].block_size = bs
           /\ o.m.heap[o.dd].size = bc
           /\ o.m.heap[o.dd].start = 0
           /\ o.m.heap[o.dd].phys_dev = o.dd
           /\ o.m.heap[o.dd].uses = 1

(* C1, witness: rtems_disk_obtain has just returned a physical disk that   *)
(* has no logical disk, with a use count of 1                              *)
C1_Witness ==
  /\ last.op = "obtain"
  /\ last.dd # NULL
  /\ last.dd = Slot(last.dev)
  /\ IsPhysical(last.dd)
  /\ ChildrenOf(last.dd) = {}
  /\ heap[last.dd].uses = 1
  /\ heap[last.dd].block_size = 1024
  /\ heap[last.dd].size = 3

(* C2: in an initialized registry, for a live physical disk of size S and *)
(* an identifier whose slot is empty, rtems_disk_create_log(begin, count)  *)
(* returns RTEMS_SUCCESSFUL exactly when count > 0 and begin + count <= S, *)
(* the sum taken without wrap-around (given that its allocations and name  *)
(* registration succeed); every other range returns RTEMS_INVALID_NUMBER   *)
(* and leaves the table and all descriptors as they were, the slot empty,  *)
(* and a create_log on the same identifier with a valid range then         *)
(* succeeds.                                                               *)
C2_CreateLogRange ==
  \A dev \in ArgDevs, phys \in ArgDevs, r \in ArgRanges, ne \in ArgNameEnvs :
    ( /\ diskdevs_mutex = "VALID"
      /\ Slot(dev) = NULL
      /\ Slot(phys) # NULL
      /\ Slot(phys) \in Present
      /\ IsPhysical(Slot(phys))
      /\ ~ Pending(Slot(phys)) )
    => LET S == heap[Slot(phys)].size
           InRange(x) == x[2] > 0 /\ x[1] + x[2] <= S
           c == rtems_disk_create_log(Mem, dev, phys, r[1], r[2], ne[1], ne[2], malloc(dev))
       IN  /\ (InRange(r) /\ ne[2] = "ok") =>
                /\ c.sc = "RTEMS_SUCCESSFUL"
                /\ SlotIn(c.m.tab, c.m.tsize, dev) = malloc(dev)
                /\ c.m.heap[malloc(dev)].start = r[1]
                /\ c.m.heap[malloc(dev)].size = r[2]
                /\ c.m.heap[malloc(dev)].phys_dev = Slot(phys)
           /\ c.sc = "RTEMS_SUCCESSFUL" => InRange(r)
           /\ ~ InRange(r) =>
                /\ c.sc = "RTEMS_INVALID_NUMBER"
                /\ c.m = Mem
                /\ SlotIn(c.m.tab, c.m.tsize, dev) = NULL
                /\ \A r2 \in ArgRanges :
                     InRange(r2) =>
                       rtems_disk_create_log(c.m, dev, phys, r2[1], r2[2], NULL, "ok",
                                             malloc(dev)).sc = "RTEMS_SUCCESSFUL"

(* C2, witness: rtems_disk_create_log has just created a logical disk that *)
(* ends at the last block of its physical disk                             *)
C2_Witness ==
  /\ last.op = "create_log"
  /\ last.sc = "RTEMS_SUCCESSFUL"
  /\ Slot(last.dev) \in Present
  /\ ~ IsPhysical(Slot(last.dev))
  /\ heap[Slot(last.dev)].start = 2
  /\ heap[Slot(last.dev)].start + heap[Slot(last.dev)].size
       = heap[heap[Slot(last.dev)].phys_dev].size

(* what a create on an occupied slot returns, by the validity of the other *)
(* arguments of the call                                                   *)
LogArgsValid(phys, r) ==
  /\ Slot(phys) # NULL
  /\ IsPhysical(Slot(phys))
  /\ ~ Pending(Slot(phys))
  /\ r[2] > 0
  /\ r[1] + r[2] <= heap[Slot(phys)].size

(* C3 as claimed: every create, physical or logical, on an identifier      *)
(* whose slot is occupied (by a live descriptor or one pending deletion)   *)
(* returns RTEMS_RESOURCE_IN_USE and leaves the table and every descriptor *)
(* unchanged.                                                              *)
C3_Claimed ==
  \A dev \in ArgDevs :
    Slot(dev) # NULL =>
      /\ \A bs \in ArgBlockSizes, bc \in ArgPhysCounts, h \in ArgHandlers, ne \in ArgNameEnvs :
           LET c == rtems_disk_create_phys(Mem, dev, bs, bc, h, ne[1], ne[2], malloc(dev))
           IN  c.sc = "RTEMS_RESOURCE_IN_USE" /\ c.m = Mem
      /\ \A phys \in ArgDevs, r \in ArgRanges, ne \in ArgNameEnvs :
           LET c == rtems_disk_create_log(Mem, dev, phys, r[1], r[2], ne[1], ne[2], malloc(dev))
           IN  c.sc = "RTEMS_RESOURCE_IN_USE" /\ c.m = Mem

(* C3 as amended: every create on an identifier whose slot is occupied (by *)
(* a live descriptor or one pending deletion) fails and leaves the table   *)
(* and every descriptor (fields, use count, pending flag) unchanged, so    *)
(* the identifier can be created again only after its slot is cleared; the *)
(* status is RTEMS_RESOURCE_IN_USE when the other arguments of the call    *)
(* are valid (create_phys: handler not null and block_size > 0;            *)
(* create_log: the physical identifier names a live physical disk and the  *)
(* range is valid), and otherwise the status of the argument check that    *)
(* fails first (RTEMS_INVALID_ADDRESS, RTEMS_INVALID_NUMBER or             *)
(* RTEMS_INVALID_ID).                                                      *)
C3_CreateOnOccupied ==
  \A dev \in ArgDevs :
    Slot(dev) # NULL =>
      /\ \A bs \in ArgBlockSizes, bc \in ArgPhysCounts, h \in ArgHandlers, ne \in ArgNameEnvs :
           LET c == rtems_disk_create_phys(Mem, dev, bs, bc, h, ne[1], ne[2], malloc(dev))
           IN  /\ c.m = Mem
               /\ c.sc = IF h = NULL THEN "RTEMS_INVALID_ADDRESS"
                         ELSE IF bs = 0 THEN "RTEMS_INVALID_NUMBER"
                         ELSE "RTEMS_RESOURCE_IN_USE"
      /\ \A phys \in ArgDevs, r \in ArgRanges, ne \in ArgNameEnvs :
           LET c == rtems_disk_create_log(Mem, dev, phys, r[1], r[2], ne[1], ne[2], malloc(dev))
           IN  /\ c.m = Mem
               /\ c.sc = IF LogArgsValid(phys, r) THEN "RTEMS_RESOURCE_IN_USE"
                         ELSE IF Slot(phys) = NULL \/ ~ IsPhysical(Slot(phys))
                                   \/ Pending(Slot(phys))
                           THEN "RTEMS_INVALID_ID"
                           ELSE "RTEMS_INVALID_NUMBER"

(* C3, witness: a create has just returned RTEMS_RESOURCE_IN_USE for a     *)
(* slot that a descriptor pending deletion occupies                        *)
C3_Witness ==
  /\ last.op \in { "create_phys", "create_log" }
  /\ last.sc = "RTEMS_RESOURCE_IN_USE"
  /\ Slot(last.dev) \in Present
  /\ Pending(Slot(last.dev))
  /\ heap[Slot(last.dev)].uses = 1

SlotAfter(dev) == SlotIn(disktab', disktab_size', dev)

(* C4: a step of create, obtain, release or delete frees a descriptor only *)
(* when no caller holds a pointer to it from rtems_disk_obtain and its use *)
(* count is 0 once the logical disks freed with it are taken off; the      *)
(* step clears its slot.  So rtems_disk_delete of a descriptor with an     *)
(* outstanding obtain does not free it.                                    *)
C4_FreedOnlyUnused ==
  [][ \A a \in Addrs :
        (a \in Present /\ heap'[a].st = "free")
        => /\ refs[a] = 0
           /\ heap[a].uses = Cardinality({ c \in ChildrenOf(a) : heap'[c].st = "free" })
           /\ SlotAfter(heap[a].dev) = NULL ]_vars

(* C4, witness: rtems_disk_delete has just returned RTEMS_SUCCESSFUL for a *)
(* descriptor that a caller still holds; it is pending and in its slot     *)
C4_Witness ==
  /\ last.op = "delete"
  /\ last.sc = "RTEMS_SUCCESSFUL"
  /\ Slot(last.dev) \in Present
  /\ Pending(Slot(last.dev))
  /\ refs[Slot(last.dev)] > 0
  /\ heap[Slot(last.dev)].uses = refs[Slot(last.dev)]

(* C5 as claimed: the last rtems_disk_release of a descriptor that is      *)
(* pending deletion reclaims it: right after a release, the released       *)
(* descriptor is not in the table with the pending flag and use count 0.   *)
C5_Claimed ==
  (last.op = "release" /\ heap[last.dd].st = "live")
  => ~ (last.dd \in Present /\ Pending(last.dd) /\ heap[last.dd].uses = 0)

(* C6: every logical disk in the table has a physical disk that is in the  *)
(* table too, and every pointer in the table points to the live descriptor *)
(* of that identifier: no phys_dev and no slot refers to freed memory.     *)
C6_OwnerPresent ==
  /\ \A dev \in Devs :
       Slot(dev) # NULL => heap[Slot(dev)].st = "live" /\ heap[Slot(dev)].dev = dev
  /\ \A c \in Present :
       /\ heap[c].phys_dev # NULL
       /\ heap[c].phys_dev \in Present
       /\ IsPhysical(heap[c].phys_dev)

(* C6, witness: a physical disk pending deletion that no caller holds is   *)
(* in the table because a logical disk on it is                            *)
C6_Witness ==
  \E c \in Present :
    /\ ~ IsPhysical(c)
    /\ Pending(heap[c].phys_dev)
    /\ refs[heap[c].phys_dev] = 0
    /\ heap[heap[c].phys_dev].uses = 1
    /\ last.op = "delete"
    /\ last.dev = heap[heap[c].phys_dev].dev

(* C7 as claimed: after rtems_disk_delete of a physical disk, each logical *)
(* disk on it is reclaimed by its own last release, and the physical disk  *)
(* after them: a logical disk of a physical disk pending deletion is in    *)
(* the table only while a caller holds a pointer to it, and so is a        *)
(* physical disk pending deletion that has logical disks only while a      *)
(* caller holds one of them or the disk itself.                            *)
C7_Claimed ==
  \A a \in Present :
    Pending(heap[a].phys_dev) =>
      IF IsPhysical(a)
        THEN ChildrenOf(a) # {} => (refs[a] > 0 \/ \E c \in ChildrenOf(a) : refs[c] > 0)
        ELSE refs[a] > 0

(* what rtems_disk_obtain and rtems_disk_delete are claimed to do to a     *)
(* logical disk c pending deletion that a caller still holds, one of two   *)
(* such logical disks of a physical disk pending deletion                  *)
HeldPendingPair(c) ==
  /\ c \in Present
  /\ ~ IsPhysical(c)
  /\ Pending(c)
  /\ refs[c] > 0
  /\ Pending(heap[c].phys_dev)
  /\ Cardinality({ d \in ChildrenOf(heap[c].phys_dev) : Pending(d) /\ refs[d] > 0 }) = 2

(* C8 as claimed: between the delete of a physical disk with two obtained  *)
(* logical disks and the release of one of them, rtems_disk_obtain on its  *)
(* identifier returns it.                                                  *)
C8_Claimed ==
  (last.op = "obtain" /\ Slot(last.dev) # NULL /\ HeldPendingPair(Slot(last.dev)))
  => last.dd = Slot(last.dev)

(* C8 as amended: rtems_disk_delete of a physical disk with two obtained   *)
(* logical disks marks both pending deletion and leaves them in the table; *)
(* between that delete and the release of such a logical disk,             *)
(* rtems_disk_obtain on its identifier returns NULL and changes nothing,   *)
(* and rtems_disk_delete on its identifier returns RTEMS_INVALID_ID and    *)
(* does not reclaim it.                                                    *)
C8_PendingChildren ==
  [][ /\ ( /\ last'.op = "delete"
           /\ last'.sc = "RTEMS_SUCCESSFUL"
           /\ Slot(last'.dev) # NULL
           /\ IsPhysical(Slot(last'.dev)) )
         => \A c \in ChildrenOf(Slot(last'.dev)) :
              refs[c] > 0 =>
                /\ heap'[c] = [ heap[c] EXCEPT !.deleted = TRUE ]
                /\ SlotAfter(heap[c].dev) = c
      /\ \A c \in Addrs :
           (HeldPendingPair(c) /\ last'.dev = heap[c].dev)
           => /\ last'.op = "obtain" =>
                   /\ last'.dd = NULL
                   /\ UNCHANGED << heap, disktab, refs >>
              /\ last'.op = "delete" =>
                   /\ last'.sc = "RTEMS_INVALID_ID"
                   /\ UNCHANGED << heap, disktab, refs >> ]_vars

(* C8, witness: rtems_disk_obtain has just returned NULL for a logical     *)
(* disk pending deletion, one of two that callers hold                     *)
C8_Witness ==
  /\ last.op = "obtain"
  /\ last.dd = NULL
  /\ Slot(last.dev) # NULL
  /\ HeldPendingPair(Slot(last.dev))

(* C9: a successful rtems_disk_delete of a physical disk leaves the disk   *)
(* and every logical disk on it either reclaimed or pending deletion; the  *)
(* pending flag of a descriptor in the table is never cleared; and         *)
(* rtems_disk_obtain returns NULL for an identifier whose slot is empty or *)
(* holds a descriptor that is pending deletion or whose physical disk is.  *)
(* So after obtain(L), delete(P) and release(L), neither obtain(L) nor     *)
(* obtain(P) returns a descriptor.                                         *)
C9_NoObtainAfterDelete ==
  [][ /\ ( /\ last'.op = "delete"
           /\ last'.sc = "RTEMS_SUCCESSFUL"
           /\ Slot(last'.dev) # NULL
           /\ IsPhysical(Slot(last'.dev)) )
         => \A a \in { Slot(last'.dev) } \cup ChildrenOf(Slot(last'.dev)) :
              heap'[a].st = "free" \/ heap'[a].deleted
      /\ \A a \in Present : (Pending(a) /\ heap'[a].st = "live") => heap'[a].deleted
      /\ ( /\ last'.op = "obtain"
           /\ \/ Slot(last'.dev) = NULL
              \/ Pending(Slot(last'.dev))
              \/ Pending(heap[Slot(last'.dev)].phys_dev) )
         => last'.dd = NULL ]_vars

(* C9, witness: rtems_disk_obtain has just returned NULL for a logical     *)
(* disk that was released after the delete of its physical disk: it is     *)
(* pending deletion with no holder, and so is its physical disk            *)
C9_Witness ==
  /\ last.op = "obtain"
  /\ last.dd = NULL
  /\ Slot(last.dev) \in Present
  /\ ~ IsPhysical(Slot(last.dev))
  /\ Pending(Slot(last.dev))
  /\ refs[Slot(last.dev)] = 0
  /\ heap[Slot(last.dev)].uses = 0
  /\ Pending(heap[Slot(last.dev)].phys_dev)
  /\ refs[heap[Slot(last.dev)].phys_dev] = 0

(* the sequences of results that calls of rtems_disk_next can return when  *)
(* the first call is made with dev and each further call with the          *)
(* identifier of the descriptor just returned, up to the call that returns *)
(* NULL (or no descriptor)                                                 *)
RECURSIVE IterateFrom(_)
IterateFrom(dev) ==
  UNION { IF dd = NULL THEN { << >> }
          ELSE IF dd \in { GARBAGE, CRASH } THEN { << dd >> }
          ELSE { << dd >> \o t : t \in IterateFrom(heap[dd].dev) }
          : dd \in rtems_disk_next(dev) }

(* the descriptors in the table that are not pending deletion, in          *)
(* ascending order of identifier (DevSeq is ascending)                     *)
RECURSIVE LiveFrom(_)
LiveFrom(i) ==
  IF i > Len(DevSeq) THEN << >>
  ELSE ( IF Slot(DevSeq[i]) # NULL /\ ~ Pending(Slot(DevSeq[i]))
           THEN << Slot(DevSeq[i]) >> ELSE << >> ) \o LiveFrom(i + 1)

(* C10 as claimed, read in favour of the code: in an initialized registry, *)
(* calling rtems_disk_next from below the smallest identifier, each time   *)
(* with the identifier just returned, can return (when every undefined     *)
(* read yields NULL) every descriptor that is not pending deletion exactly *)
(* once in ascending order of (major, minor), and then NULL.               *)
C10_Claimed ==
  disktab_size > 0 => LiveFrom(1) \in IterateFrom(BelowAll)

(* C11: rtems_disk_io_initialize called while the registry is initialized  *)
(* (disktab_size > 0) returns RTEMS_SUCCESSFUL and changes nothing: the    *)
(* table, its size, the descriptors and their use counts, the registered   *)
(* names, the semaphore and the flag stay as they are, and rtems_bdbuf_init *)
(* is not called again.                                                    *)
C11_InitializeIdempotent ==
  [][ (last'.op = "initialize" /\ disktab_size > 0)
      => /\ last'.sc = "RTEMS_SUCCESSFUL"
         /\ UNCHANGED << disktab_ptr, disktab, disktab_size, diskdevs_mutex, diskdevs_protected,
                         mutex_owner, heap, registered, notified, refs, bdbuf_inits >> ]_vars

(* C11, witness: rtems_disk_io_initialize has just returned in a registry  *)
(* that holds a descriptor a caller has obtained, with the buffer cache    *)
(* initialized once                                                        *)
C11_Witness ==
  /\ last.op = "initialize"
  /\ last.sc = "RTEMS_SUCCESSFUL"
  /\ bdbuf_inits = 1
  /\ \E a \in Present : refs[a] = 1 /\ heap[a].uses = 1

(* C12: rtems_disk_io_done on an initialized registry frees every          *)
(* descriptor in the table whatever its use count and pending flag (the    *)
(* driver of a physical disk is told, a registered name is removed) and    *)
(* leaves disktab NULL, disktab_size 0, diskdevs_mutex RTEMS_ID_NONE and   *)
(* the flag false, the values they have before the first initialize; after *)
(* it rtems_disk_obtain returns NULL for every identifier and changes      *)
(* nothing, and an rtems_disk_io_initialize that succeeds leaves an empty  *)
(* table of the initial size with a new semaphore.                         *)
C12_DoneResets ==
  [][ /\ (last'.op = "done" /\ disktab_size > 0)
         => /\ last'.sc = "RTEMS_SUCCESSFUL"
            /\ last'.dd = NULL
            /\ \A a \in Present :
                 /\ heap'[a].st = "free"
                 /\ notified'[a] = IF IsPhysical(a) THEN notified[a] + 1 ELSE notified[a]
            /\ \A a \in Addrs : heap'[a].st = "free"
            /\ registered' = {}
            /\ disktab_ptr' = "NULL"
            /\ disktab_size' = 0
            /\ diskdevs_mutex' = "NONE"
            /\ diskdevs_protected' = FALSE
            /\ mutex_owner' = 0
      /\ (last.op = "done" /\ last.dd = NULL)
         => /\ \A dev \in Devs :
                 /\ rtems_disk_obtain(Mem, dev).dd = NULL
                 /\ rtems_disk_obtain(Mem, dev).m = Mem
            /\ (last'.op = "initialize" /\ last'.sc = "RTEMS_SUCCESSFUL")
                 => /\ disktab_ptr' = "ALLOCATED"
                    /\ disktab_size' = DISKTAB_INITIAL_SIZE
                    /\ disktab' = [ i \in 0 .. DISKTAB_INITIAL_SIZE - 1 |-> EmptyTable ]
                    /\ diskdevs_mutex' = "VALID"
                    /\ diskdevs_protected' = FALSE
                    /\ \A dev \in Devs : SlotAfter(dev) = NULL ]_vars

(* C12, witness: rtems_disk_io_initialize has just succeeded for the       *)
(* second time, after an rtems_disk_io_done that freed a physical disk a   *)
(* caller still held (its driver was told once); the table is empty        *)
C12_Witness ==
  /\ last.op = "initialize"
  /\ last.sc = "RTEMS_SUCCESSFUL"
  /\ bdbuf_inits = 2
  /\ disktab_size = DISKTAB_INITIAL_SIZE
  /\ \A dev \in Devs : Slot(dev) = NULL
  /\ \E a \in Addrs : refs[a] > 0 /\ heap[a].st = "free" /\ notified[a] = 1

(* the occupied slots of a table, each with the pointer it holds *)
OccupiedIn(tab, tsize) ==
  UNION { { << i, j, tab[i].minor[j] >> : j \in { k \in 0 .. tab[i].size - 1 : tab[i].minor[k] # NULL } }
          : i \in 0 .. tsize - 1 }

(* the memory m has the occupied slots, the descriptors (fields, use       *)
(* counts, flags), the registered names and the driver notifications of    *)
(* the current state, and the lock is released                             *)
AsBefore(m) ==
  /\ OccupiedIn(m.tab, m.tsize) = OccupiedIn(disktab, disktab_size)
  /\ m.heap = heap
  /\ m.registered = registered
  /\ m.notified = notified
  /\ m.owner = 0
  /\ ~ m.protected

(* C13: an rtems_disk_create_phys or rtems_disk_create_log that does not   *)
(* return RTEMS_SUCCESSFUL (null handler, zero block size, lock not        *)
(* available, physical identifier absent, pending or naming a logical      *)
(* disk, invalid range, occupied slot, failed allocation of a table, the   *)
(* descriptor or the name, failed name registration) leaves the set of     *)
(* occupied slots, every descriptor and every use count, the physical      *)
(* disk's included, as before the call, registers no name, and returns     *)
(* with the flag cleared and the semaphore released.  (The tables can have *)
(* grown.)                                                                 *)
C13_FailedCreateUnchanged ==
  \A dev \in ArgDevs :
    /\ \A bs \in ArgBlockSizes, bc \in ArgPhysCounts, h \in ArgHandlers, ne \in ArgNameEnvs :
         LET c == rtems_disk_create_phys(Mem, dev, bs, bc, h, ne[1], ne[2], malloc(dev))
         IN  c.sc # "RTEMS_SUCCESSFUL" => AsBefore(c.m)
    /\ \A phys \in ArgDevs, r \in ArgRanges, ne \in ArgNameEnvs :
         LET c == rtems_disk_create_log(Mem, dev, phys, r[1], r[2], ne[1], ne[2], malloc(dev))
         IN  c.sc # "RTEMS_SUCCESSFUL" => AsBefore(c.m)

(* C13, witness: rtems_disk_create_log has just failed in                  *)
(* rtems_io_register_name after it had taken a use of the physical disk    *)
(* and grown the tables; the slot is empty, no name is registered and the  *)
(* physical disk, which a caller holds, has a use count of 1               *)
C13_Witness ==
  /\ last.op = "create_log"
  /\ last.sc = "RTEMS_UNSATISFIED"
  /\ Slot(last.dev) = NULL
  /\ disktab_size > DISKTAB_INITIAL_SIZE
  /\ disktab[Major(last.dev)].size > DISKTAB_INITIAL_SIZE
  /\ registered = {}
  /\ mutex_owner = 0
  /\ \E p \in Present : IsPhysical(p) /\ refs[p] = 1 /\ heap[p].uses = 1 /\ Present = { p }

(* identifiers outside the tables of Spec: minor, major, both *)
OutOfRange == { << 0, DISKTAB_INITIAL_SIZE >>, << DISKTAB_INITIAL_SIZE, 0 >>, DevSeq[4] }

(* C14: in an initialized registry, rtems_disk_delete on an identifier     *)
(* whose slot is empty, outside the tables, or holds a descriptor pending  *)
(* deletion returns RTEMS_INVALID_ID and changes no slot, no use count and *)
(* no pending flag; so a second rtems_disk_delete of an identifier, right  *)
(* after one that succeeded, returns RTEMS_INVALID_ID and decrements no    *)
(* use count again.                                                        *)
C14_DeleteAbsent ==
  diskdevs_mutex = "VALID" =>
    \A dev \in Devs \cup OutOfRange :
      /\ (Slot(dev) = NULL \/ Pending(Slot(dev)))
         => /\ rtems_disk_delete(Mem, dev).sc = "RTEMS_INVALID_ID"
            /\ rtems_disk_delete(Mem, dev).m = Mem
      /\ (Slot(dev) # NULL /\ ~ Pending(Slot(dev)))
         => LET d1 == rtems_disk_delete(Mem, dev)
                d2 == rtems_disk_delete(d1.m, dev)
            IN  /\ d1.sc = "RTEMS_SUCCESSFUL"
                /\ d2.sc = "RTEMS_INVALID_ID"
                /\ d2.m = d1.m

(* C14, witness: rtems_disk_delete has just returned RTEMS_INVALID_ID for  *)
(* a logical disk pending deletion that a caller holds; its use count and  *)
(* that of its physical disk are what the first delete left                *)
C14_Witness ==
  /\ last.op = "delete"
  /\ last.sc = "RTEMS_INVALID_ID"
  /\ Slot(last.dev) \in Present
  /\ ~ IsPhysical(Slot(last.dev))
  /\ Pending(Slot(last.dev))
  /\ ~ Pending(heap[Slot(last.dev)].phys_dev)
  /\ refs[Slot(last.dev)] = 1
  /\ heap[Slot(last.dev)].uses = 1
  /\ heap[heap[Slot(last.dev)].phys_dev].uses = 1

(* C20 as claimed: in an initialized registry, for every argument,         *)
(* rtems_disk_next reads dtab->minor [minor] only with minor < dtab->size  *)
(* and dtab->minor allocated, and returns: no call has a result that comes *)
(* from a read at minor == dtab->size or through a dtab->minor that is     *)
(* NULL.                                                                   *)
C20_Claimed ==
  disktab_size > 0 =>
    \A dev \in Devs \cup OutOfRange \cup { BelowAll } :
      rtems_disk_next(dev) \cap { GARBAGE, CRASH } = {}

(* C15: under every interleaving of the steps of threads that call         *)
(* create_phys, create_log, delete, obtain and release, at most one thread *)
(* is between disk_lock and disk_unlock and it holds the semaphore; the    *)
(* flag diskdevs_protected is true only while a thread holds the           *)
(* semaphore; and a step that grows a table, writes a slot or frees or     *)
(* allocates a descriptor is a step of the thread that holds the           *)
(* semaphore, taken while the flag is true.                                *)
C15_LockDiscipline ==
  [][ /\ Cardinality({ t \in Threads : pc[t] \in LockedPCs }) <= 1
      /\ \A t \in Threads : pc[t] \in LockedPCs => mutex_owner = t
      /\ diskdevs_protected => \E t \in Threads : pc[t] \in LockedPCs /\ mutex_owner = t
      /\ ( \/ disktab' # disktab
           \/ disktab_size' # disktab_size
           \/ \E a \in Addrs : heap'[a].st # heap[a].st )
         => \E t \in Threads :
              /\ pc'[t] # pc[t]
              /\ pc[t] \in FlagPCs
              /\ mutex_owner = t
              /\ diskdevs_protected ]_vars

(* C15, witness: a thread has created a logical disk and not yet cleared   *)
(* the flag, while the rtems_disk_obtain of the other thread, which read   *)
(* the flag as set, waits for the semaphore                                *)
C15_Witness ==
  \E t \in Threads, u \in Threads :
    /\ pc[t] = "lock"
    /\ loc[t].op = "obtain"
    /\ pc[u] = "unflag"
    /\ loc[u].op = "create_log"
    /\ loc[u].sc = "RTEMS_SUCCESSFUL"
    /\ Slot(ThrLog) # NULL
    /\ mutex_owner = u
    /\ diskdevs_protected

(* C16: on one processor, where the section of rtems_disk_obtain with      *)
(* interrupts disabled is one step, a step in which rtems_disk_obtain      *)
(* looks a descriptor up and increments its use count without the lock is  *)
(* taken with the flag clear and with no thread between                    *)
(* diskdevs_protected = true and diskdevs_protected = false, the           *)
(* statements that enclose every change of the table under the lock; an    *)
(* rtems_disk_obtain that reads the flag as set does no lookup in that     *)
(* step, and does its lookup and increment only while it holds the         *)
(* semaphore.                                                              *)
C16_FastPathUniprocessor ==
  [][ /\ (pc' = pc /\ \E a \in Addrs : refs'[a] > refs[a])
         => /\ ~ diskdevs_protected
            /\ \A u \in Threads : pc[u] \notin FlagPCs
      /\ \A t \in Threads :
           /\ (pc[t] = "idle" /\ pc'[t] = "lock" /\ loc'[t].op = "obtain")
              => /\ diskdevs_protected
                 /\ UNCHANGED << heap, refs >>
           /\ (loc[t].op = "obtain" /\ pc[t] \in { "get", "inc_r", "inc_w" })
              => /\ mutex_owner = t
                 /\ diskdevs_protected
                 /\ \A u \in Threads \ { t } : pc[u] \notin LockedPCs ]_vars

(* C16, witness: an rtems_disk_obtain that read the flag as set has taken  *)
(* the semaphore and is incrementing the use count of a descriptor that a  *)
(* caller obtained before, while an rtems_disk_delete of the other thread  *)
(* waits for the semaphore                                                 *)
C16_Witness ==
  \E t \in Threads, u \in Threads :
    /\ pc[t] = "inc_w"
    /\ loc[t].op = "obtain"
    /\ mutex_owner = t
    /\ diskdevs_protected
    /\ refs[loc[t].dd] = 1
    /\ heap[loc[t].dd].uses = 1
    /\ pc[u] = "lock"
    /\ loc[u].op = "delete"

(* C17: with threads on two processors, the descriptor whose deleted flag  *)
(* and use count the fast path of rtems_disk_obtain is about to read and   *)
(* increment, after it read the flag as clear and the slot, is allocated:  *)
(* no thread on the other processor has freed it under the lock in the     *)
(* meantime, so that rtems_disk_obtain does not return a freed descriptor. *)
C17_Claimed ==
  \A t \in Threads :
    pc[t] = "fast_inc" => heap[loc[t].dd].st = "live"

(* C18: with threads on one processor, whenever no call is in progress the *)
(* use count of every descriptor in the table is the number of pointers to *)
(* it that callers obtained and have not released plus, for a physical     *)
(* disk, the number of its logical disks in the table; no update of a use  *)
(* count is lost and none wraps around below zero.                         *)
C18_Claimed ==
  ( /\ Running
    /\ \A t \in Threads : pc[t] = "idle" )
  => \A a \in Present :
       heap[a].uses = refs[a] + ( IF IsPhysical(a) THEN Cardinality(ChildrenOf(a)) ELSE 0 )

(* C19: the rtems_disk_delete(dev) that rtems_disk_release calls after it  *)
(* dropped the use count to 0 and saw the deleted flag acts on the         *)
(* descriptor that was released only: when its lookup has returned a       *)
(* descriptor, which it goes on to mark and reclaim, that descriptor is    *)
(* the released one and has not been freed, and its slot not filled by a   *)
(* later create on the identifier, since the decrement.                    *)
C19_Claimed ==
  \A t \in Threads :
    ( /\ loc[t].op = "release"
      /\ pc[t] \in { "inc_r", "inc_w", "dec_r", "dec_w", "mark", "scan",
                     "sub_r", "sub_w", "free_phys", "log_test", "pdec_r", "pdec_w" } )
    => /\ loc[t].dd = loc[t].rel
       /\ ~ loc[t].stale

(* C21: the driver receives RTEMS_BLKIO_DELETED for a descriptor only in   *)
(* the step that frees it, only when the descriptor is a physical disk     *)
(* that is allocated and in its slot when the step begins (the handler is  *)
(* called before free), only by rtems_disk_delete (the disk itself or the  *)
(* cleanup of its last logical disk) or rtems_disk_io_done, and at most    *)
(* once for each descriptor created; a descriptor in the table has caused  *)
(* no notification yet, and a logical disk never causes one.               *)
C21_NotifyOncePhysical ==
  [][ \A a \in Addrs :
        /\ notified'[a] <= 1
        /\ heap[a].st = "live" => notified[a] = 0
        /\ (heap[a].st = "live" /\ ~ IsPhysical(a)) => notified'[a] = 0
        /\ notified'[a] # notified[a]
           => \/ /\ heap[a].st = "free"
                 /\ heap'[a].st = "live"
                 /\ notified'[a] = 0
              \/ /\ heap[a].st = "live"
                 /\ IsPhysical(a)
                 /\ Slot(heap[a].dev) = a
                 /\ heap'[a].st = "free"
                 /\ notified'[a] = 1
                 /\ last'.op \in { "delete", "done" } ]_vars

(* C21, witness: rtems_disk_io_done has freed a physical disk and a        *)
(* logical disk that callers still held; the driver was told once of the   *)
(* physical disk and not of the logical disk                               *)
C21_Witness ==
  /\ last.op = "done"
  /\ refs[malloc(DevSeq[1])] > 0
  /\ refs[malloc(DevSeq[2])] > 0
  /\ heap[malloc(DevSeq[1])].st = "free"
  /\ heap[malloc(DevSeq[2])].st = "free"
  /\ notified[malloc(DevSeq[1])] = 1
  /\ notified[malloc(DevSeq[2])] = 0

(* the lock is given back: whenever no call is in progress the semaphore  *)
(* is available and the flag is false                                      *)
C22_Released ==
  (\A t \in Threads : pc[t] = "idle") => (mutex_owner = 0 /\ ~ diskdevs_protected)

(* no call waits for ever: a call that waits in disk_lock returns *)
C22_Returns ==
  \A t \in Threads : (pc[t] = "lock") ~> (pc[t] = "idle")

TypeOK ==
  /\ disktab_ptr \in { "NULL", "ALLOCATED", "FREED" }
  /\ diskdevs_mutex \in { "NONE", "VALID", "STALE" }
  /\ diskdevs_protected \in BOOLEAN

====
